---- MODULE Spec2Model ----
(***************************************************************************)
(* clipzero: a clipboard-history picker (src/src/main.rs).                  *)
(*                                                                         *)
(* Two producer threads send u8 tokens into one unbounded channel (0 for   *)
(* the global hotkey, 1 for a clipboard change).  The iced subscription    *)
(* receives the tokens and turns them into messages; ClipboardManager's    *)
(* update handles the messages, the keyboard events of the window and the  *)
(* results of the clipboard commands it has issued.                        *)
(*                                                                         *)
(* Spec        the application: producers, channel, subscription, update,  *)
(*             with at most MaxPending tokens and MaxInFlight command      *)
(*             results outstanding at a time.                              *)
(* FunnelSpec  the funnel with its logs: MaxTokens sends in a run, every   *)
(*             token and every message produced is logged.                 *)
(* HistSpec    the history store: sequences of ClipboardUpdated messages   *)
(*             long enough to fill the ten slots and evict.                *)
(* CloseSpec   Spec with the Sender handles of the channel being dropped.  *)
(***************************************************************************)
EXTENDS Integers, Sequences, FiniteSets, Bags

VARIABLES
    history,            \* ClipboardManager.history, front first
    current_selection,  \* ClipboardManager.current_selection: {} is None, {n} is Some(n)
    visible,            \* ClipboardManager.visible
    clipboard,          \* ClipboardManager.clipboard is Some
    channel,            \* tokens sent and not yet received by the subscription
    mailbox,            \* messages the subscription produced, not yet handled by update
    in_flight,          \* bag of the messages of Command::perform futures not yet handled
    sent,               \* log (FunnelSpec): every token sent, in send order
    received,           \* log (FunnelSpec): every message the subscription produced
    last,               \* log: the variant of the message update handled last
    effects,            \* log: the calls update made while handling it
    recorded,           \* log (HistSpec): the contents passed to add_to_history
    funnel              \* the channel and its subscription: "open", "closed"
                        \* (every Sender dropped) or "panicked"

vars == <<history, current_selection, visible, clipboard, channel, mailbox,
          in_flight, sent, received, last, effects, recorded, funnel>>

(***************************************************************************)
(* Bounds and program constants                                            *)
(***************************************************************************)
MAX_HISTORY == 10

\* The number of distinct clipboard texts; text 0 is the empty string.
NumContents == 2
\* Spec: tokens sent and not yet handled by update.
MaxPending == 1
\* Command results not yet handled by update.
MaxInFlight == 2
\* FunnelSpec: the number of tokens the two producers send in a run.
MaxTokens == 3
\* HistSpec: the number of distinct contents recorded in a run.
MaxFresh == 12
\* HistSpec: the number of calls that record a content recorded before.
MaxRepeats == 2

Contents == 0 .. (NumContents - 1)

Range(s) == {s[i] : i \in 1 .. Len(s)}

(***************************************************************************)
(* Values                                                                  *)
(***************************************************************************)
None == {}

Some(x) == {x}

DigitKeys == {"Key1", "Key2", "Key3", "Key4", "Key5", "Key6", "Key7", "Key8",
              "Key9", "Key0"}

KeyCodes == DigitKeys \cup {"Escape", "Enter", "A"}

KeyPressed(k) == [kind |-> "KeyPressed", key_code |-> k]

\* iced::Event as update sees it: a key press, another keyboard event, or an
\* event that is not a keyboard event.
Events == {KeyPressed(k) : k \in KeyCodes}
          \cup {[kind |-> "KeyReleased", key_code |-> "Enter"],
                [kind |-> "Window", key_code |-> "None"]}

\* The messages a command delivers later.
ClipboardUpdated(c) == [msg |-> "ClipboardUpdated", content |-> c]

ClipboardError == [msg |-> "ClipboardError", content |-> -1]

\* What Clipboard::get_text returns: Ok(text) or Err.
ReadResults == {[ok |-> TRUE, text |-> c] : c \in Contents}
               \cup {[ok |-> FALSE, text |-> -1]}

NoEffects == [read |-> FALSE, write |-> <<>>, window |-> "none"]

(***************************************************************************)
(* Pure functions                                                          *)
(***************************************************************************)
\* Faulty variant of key_code_to_number: each digit key selects the index of
\* its face value.
key_code_to_number_face_value(key_code) ==
    CASE key_code = "Key1" -> Some(1)
      [] key_code = "Key2" -> Some(2)
      [] key_code = "Key3" -> Some(3)
      [] key_code = "Key4" -> Some(4)
      [] key_code = "Key5" -> Some(5)
      [] key_code = "Key6" -> Some(6)
      [] key_code = "Key7" -> Some(7)
      [] key_code = "Key8" -> Some(8)
      [] key_code = "Key9" -> Some(9)
      [] key_code = "Key0" -> Some(0)
      [] OTHER -> None

key_code_to_number(key_code) ==
    CASE key_code = "Key1" -> Some(0)
      [] key_code = "Key2" -> Some(1)
      [] key_code = "Key3" -> Some(2)
      [] key_code = "Key4" -> Some(3)
      [] key_code = "Key5" -> Some(4)
      [] key_code = "Key6" -> Some(5)
      [] key_code = "Key7" -> Some(6)
      [] key_code = "Key8" -> Some(7)
      [] key_code = "Key9" -> Some(8)
      [] key_code = "Key0" -> Some(9)
      [] OTHER -> None

\* VecDeque::remove(i), 1-based here.
Remove(h, i) == SubSeq(h, 1, i - 1) \o SubSeq(h, i + 1, Len(h))

\* VecDeque::push_front
PushFront(h, c) == <<c>> \o h

\* VecDeque::pop_back
PopBack(h) == SubSeq(h, 1, Len(h) - 1)

\* VecDeque::get(index), 0-based as in the code.
Get(h, index) == IF index < Len(h) THEN Some(h[index + 1]) ELSE None

\* The loop of add_to_history: the first position whose entry equals content,
\* 0 when the loop ends without a match.
FirstMatch(h, content) ==
    LET hits == {i \in 1 .. Len(h) : h[i] = content}
    IN  IF hits = {} THEN 0 ELSE CHOOSE i \in hits : \A j \in hits : i <= j

\* Faulty variant of add_to_history: evicts only above MAX_HISTORY entries.
add_to_history_late_evict(h, content) ==
    LET i == FirstMatch(h, content)
    IN  IF i > 0
        THEN PushFront(Remove(h, i), h[i])
        ELSE PushFront(IF Len(h) > MAX_HISTORY THEN PopBack(h) ELSE h, content)

\* Faulty variant of add_to_history: a match returns without promoting.
add_to_history_no_promote(h, content) ==
    LET i == FirstMatch(h, content)
    IN  IF i > 0
        THEN h
        ELSE PushFront(IF Len(h) >= MAX_HISTORY THEN PopBack(h) ELSE h, content)

\* Faulty variant of add_to_history: evicts the front entry.
add_to_history_evict_front(h, content) ==
    LET i == FirstMatch(h, content)
    IN  IF i > 0
        THEN PushFront(Remove(h, i), h[i])
        ELSE PushFront(IF Len(h) >= MAX_HISTORY THEN Tail(h) ELSE h, content)

\* Faulty variant of add_to_history: a match is moved to the back.
add_to_history_promote_to_back(h, content) ==
    LET i == FirstMatch(h, content)
    IN  IF i > 0
        THEN Append(Remove(h, i), h[i])
        ELSE PushFront(IF Len(h) >= MAX_HISTORY THEN PopBack(h) ELSE h, content)

\* Faulty variant of add_to_history: no search for a match.
add_to_history_no_dedup(h, content) ==
    PushFront(IF Len(h) >= MAX_HISTORY THEN PopBack(h) ELSE h, content)

add_to_history(h, content) ==
    LET i == FirstMatch(h, content)
    IN  IF i > 0
        THEN PushFront(Remove(h, i), h[i])
        ELSE PushFront(IF Len(h) >= MAX_HISTORY THEN PopBack(h) ELSE h, content)

\* Command::perform(async { m }): one message that will be delivered later.
Perform(m) == SetToBag({m})

\* Command::none()
CommandNone == EmptyBag

\* Faulty variant of check_clipboard: a failed read is reported as the empty
\* text.
check_clipboard_error_as_text(r) ==
    IF clipboard
    THEN IF r.ok THEN Perform(ClipboardUpdated(r.text))
                 ELSE Perform(ClipboardUpdated(0))
    ELSE CommandNone

\* check_clipboard: the command it returns, given what get_text returns.
check_clipboard(r) ==
    IF clipboard
    THEN IF r.ok THEN Perform(ClipboardUpdated(r.text)) ELSE Perform(ClipboardError)
    ELSE CommandNone

\* set_clipboard_content: the command it returns, given whether set_text
\* succeeds.
set_clipboard_content(ok) ==
    IF clipboard
    THEN IF ok THEN CommandNone ELSE Perform(ClipboardError)
    ELSE CommandNone

(***************************************************************************)
(* update: one definition per arm.  Each sets history, current_selection,  *)
(* visible, in_flight and effects; `rest` is in_flight without the message *)
(* being handled.                                                          *)
(***************************************************************************)
\* Faulty variant of the ShowWindow arm: the selection is not set.
UpdateShowWindow_no_selection(rest, r) ==
    /\ visible' = TRUE
    /\ in_flight' = rest (+) check_clipboard(r)
    /\ effects' = [read |-> clipboard, write |-> <<>>, window |-> "show"]
    /\ UNCHANGED <<history, current_selection>>

\* Faulty variant of the ShowWindow arm: check_clipboard is not called.
UpdateShowWindow_no_read(rest, r) ==
    /\ visible' = TRUE
    /\ current_selection' = Some(0)
    /\ in_flight' = rest
    /\ effects' = [read |-> FALSE, write |-> <<>>, window |-> "show"]
    /\ UNCHANGED history

UpdateShowWindow(rest, r) ==
    /\ visible' = TRUE
    /\ current_selection' = Some(0)
    /\ in_flight' = rest (+) check_clipboard(r)
    /\ effects' = [read |-> clipboard, write |-> <<>>, window |-> "show"]
    /\ UNCHANGED history

UpdateCheckClipboard(rest, r) ==
    /\ current_selection' = Some(0)
    /\ in_flight' = rest (+) check_clipboard(r)
    /\ effects' = [read |-> clipboard, write |-> <<>>, window |-> "none"]
    /\ UNCHANGED <<history, visible>>

UpdateHide(rest) ==
    /\ visible' = FALSE
    /\ current_selection' = None
    /\ in_flight' = rest
    /\ effects' = [read |-> FALSE, write |-> <<>>, window |-> "hide"]
    /\ UNCHANGED history

UpdateNumberPressed(rest, num) ==
    /\ current_selection' = IF visible THEN Some(num) ELSE current_selection
    /\ in_flight' = rest
    /\ effects' = NoEffects
    /\ UNCHANGED <<history, visible>>

\* Faulty variant of the ClipboardUpdated arm: the selection is reset.
UpdateClipboardUpdated_resets_selection(rest, content) ==
    /\ history' = add_to_history(history, content)
    /\ current_selection' = Some(0)
    /\ in_flight' = rest
    /\ effects' = NoEffects
    /\ UNCHANGED visible

UpdateClipboardUpdated(rest, content) ==
    /\ history' = add_to_history(history, content)
    /\ in_flight' = rest
    /\ effects' = NoEffects
    /\ UNCHANGED <<current_selection, visible>>

\* An arm, or a path through one, that returns Command::none() and assigns
\* nothing.
UpdateNone(rest) ==
    /\ in_flight' = rest
    /\ effects' = NoEffects
    /\ UNCHANGED <<history, current_selection, visible>>

\* What Clipboard::set_text returns: Ok (TRUE) or Err (FALSE).
WriteResults == BOOLEAN

\* The calls of set_text that set_clipboard_content(content) makes, each with
\* its argument and what it returned.
SetTextCalls(content, ok) ==
    IF clipboard THEN <<[content |-> content, ok |-> ok]>> ELSE <<>>

\* Faulty variant of the ConfirmSelection arm: writes the front entry.
UpdateConfirmSelection_writes_front(rest) ==
    IF /\ current_selection # None
       /\ \E index \in current_selection : Get(history, index) # None
    THEN \E content \in Get(history, 0) : \E ok \in WriteResults :
            /\ visible' = FALSE
            /\ in_flight' = rest (+) set_clipboard_content(ok)
            /\ effects' = [read |-> FALSE,
                           write |-> SetTextCalls(content, ok),
                           window |-> "hide"]
            /\ UNCHANGED <<history, current_selection>>
    ELSE UpdateNone(rest)

\* Faulty variant of the ConfirmSelection arm: hides only when set_text
\* succeeds.
UpdateConfirmSelection_hide_on_success(rest) ==
    IF /\ current_selection # None
       /\ \E index \in current_selection : Get(history, index) # None
    THEN \E index \in current_selection : \E content \in Get(history, index) :
         \E ok \in WriteResults :
            /\ visible' = ~ok
            /\ in_flight' = rest (+) set_clipboard_content(ok)
            /\ effects' = [read |-> FALSE,
                           write |-> SetTextCalls(content, ok),
                           window |-> IF ok THEN "hide" ELSE "none"]
            /\ UNCHANGED <<history, current_selection>>
    ELSE UpdateNone(rest)

UpdateConfirmSelection(rest) ==
    IF /\ current_selection # None
       /\ \E index \in current_selection : Get(history, index) # None
    THEN \E index \in current_selection : \E content \in Get(history, index) :
         \E ok \in WriteResults :
            /\ visible' = FALSE
            /\ in_flight' = rest (+) set_clipboard_content(ok)
            /\ effects' = [read |-> FALSE,
                           write |-> SetTextCalls(content, ok),
                           window |-> "hide"]
            /\ UNCHANGED <<history, current_selection>>
    ELSE UpdateNone(rest)

\* Faulty variant of the EventOccurred arm: key presses are not guarded by
\* self.visible.
UpdateEventOccurred_unguarded(rest, event) ==
    IF event.kind = "KeyPressed"
    THEN CASE event.key_code = "Escape" -> UpdateHide(rest)
           [] event.key_code = "Enter" -> UpdateConfirmSelection(rest)
           [] OTHER ->
                IF key_code_to_number(event.key_code) # None
                THEN \E num \in key_code_to_number(event.key_code) :
                        UpdateNumberPressed(rest, num)
                ELSE UpdateNone(rest)
    ELSE UpdateNone(rest)

UpdateEventOccurred(rest, event) ==
    IF event.kind = "KeyPressed" /\ visible
    THEN CASE event.key_code = "Escape" -> UpdateHide(rest)
           [] event.key_code = "Enter" -> UpdateConfirmSelection(rest)
           [] OTHER ->
                IF key_code_to_number(event.key_code) # None
                THEN \E num \in key_code_to_number(event.key_code) :
                        UpdateNumberPressed(rest, num)
                ELSE UpdateNone(rest)
    ELSE UpdateNone(rest)

UpdateClipboardError(rest) == UpdateNone(rest)

(***************************************************************************)
(* The producers, the channel and the subscription                         *)
(***************************************************************************)
\* Tokens sent and not yet handled by update.
Pending == Len(channel) + Len(mailbox)

\* Sender::send on the unbounded channel; `log` says whether the run keeps
\* the logs.
Send(token, log) ==
    /\ funnel = "open"
    /\ channel' = Append(channel, token)
    /\ sent' = IF log THEN Append(sent, token) ELSE sent
    /\ UNCHANGED <<history, current_selection, visible, clipboard, mailbox,
                   in_flight, received, last, effects, recorded, funnel>>

\* Faulty variant of Decode: the two kinds are exchanged.
Decode_kinds_exchanged(value) ==
    IF value = 1 THEN "ShowWindow" ELSE "CheckClipboard"

\* The closure of the subscription: the message it yields for a received
\* value.
Decode(value) == IF value = 1 THEN "CheckClipboard" ELSE "ShowWindow"

\* Faulty variant of Recv: the value sent last is received first.
Recv_newest_first(ch) ==
    [value |-> ch[Len(ch)], rest |-> SubSeq(ch, 1, Len(ch) - 1)]

\* Receiver::recv on a channel that is not empty: the value received and what
\* is left in the channel.
Recv(ch) == [value |-> Head(ch), rest |-> Tail(ch)]

\* One step of subscription::unfold: recv, then yield the message.
Unfold(log) ==
    /\ funnel # "panicked"
    /\ channel # <<>>
    /\ channel' = Recv(channel).rest
    /\ mailbox' = Append(mailbox, Decode(Recv(channel).value))
    /\ received' = IF log
                   THEN Append(received, Decode(Recv(channel).value))
                   ELSE received
    /\ UNCHANGED <<history, current_selection, visible, clipboard, in_flight,
                   sent, last, effects, recorded, funnel>>

(***************************************************************************)
(* view: what is rendered from the state.  Texts are named; the entry shown *)
(* is named by its index, its truncation to 100 characters left out.        *)
(***************************************************************************)
\* The empty String, the default of history.get(curr).unwrap_or(...).
EmptyText == 0

\* Option::unwrap_or
unwrap_or(opt, default) == IF opt = None THEN default ELSE CHOOSE x \in opt : TRUE

\* String::is_empty
is_empty(content) == content = EmptyText

\* Option::expect: the value, or a panic.
expect(opt) ==
    IF opt = None
    THEN [panic |-> TRUE, value |-> EmptyText]
    ELSE [panic |-> FALSE, value |-> CHOOSE x \in opt : TRUE]

\* Faulty variant of view: the entry is not tested for emptiness.
view_no_empty_test ==
    IF visible
    THEN LET curr == unwrap_or(current_selection, 0)
             notice == IF history = <<>>
                       THEN <<[text |-> "No clipboard history yet"]>>
                       ELSE <<>>
         IN  IF curr > Len(history)
             THEN [panic |-> FALSE,
                   items |-> notice \o <<[text |-> "Out of range of stored history."]>>]
             ELSE [panic |-> expect(Get(history, curr)).panic,
                   items |-> notice \o <<[text |-> "entry", index |-> curr]>>]
    ELSE [panic |-> FALSE, items |-> <<[text |-> ""]>>]

view ==
    IF visible
    THEN LET curr == unwrap_or(current_selection, 0)
             notice == IF history = <<>>
                       THEN <<[text |-> "No clipboard history yet"]>>
                       ELSE <<>>
         IN  IF \/ curr > Len(history)
                \/ is_empty(unwrap_or(Get(history, curr), EmptyText))
             THEN [panic |-> FALSE,
                   items |-> notice \o <<[text |-> "Out of range of stored history."]>>]
             ELSE [panic |-> expect(Get(history, curr)).panic,
                   items |-> notice \o <<[text |-> "entry", index |-> curr]>>]
    ELSE [panic |-> FALSE, items |-> <<[text |-> ""]>>]

(***************************************************************************)
(* Spec: the application                                                   *)
(***************************************************************************)
\* Application::new: the manager as constructed, and its first check_clipboard.
Init ==
    /\ history = <<>>
    /\ current_selection = None
    /\ visible = FALSE
    /\ clipboard \in BOOLEAN
    /\ channel = <<>>
    /\ mailbox = <<>>
    /\ \E r \in ReadResults : in_flight = check_clipboard(r)
    /\ sent = <<>>
    /\ received = <<>>
    /\ last = "new"
    /\ effects = [read |-> clipboard, write |-> <<>>, window |-> "none"]
    /\ recorded = <<>>
    /\ funnel = "open"

\* The hotkey thread: one send(0) per GlobalHotKeyEvent.
HotkeyThread ==
    /\ Pending < MaxPending
    /\ Send(0, FALSE)

\* The clipboard watcher's thread: one send(1) per on_clipboard_change.
on_clipboard_change ==
    /\ Pending < MaxPending
    /\ Send(1, FALSE)

SubscriptionStep == Unfold(FALSE)

\* The runtime hands the subscription's next message to update.
\* `r` is what get_text returns if update calls it.
OnFunnelMessage(r) ==
    /\ mailbox # <<>>
    /\ mailbox' = Tail(mailbox)
    /\ last' = Head(mailbox)
    /\ IF Head(mailbox) = "ShowWindow"
       THEN UpdateShowWindow(in_flight, r)
       ELSE UpdateCheckClipboard(in_flight, r)
    /\ BagCardinality(in_flight') <= MaxInFlight
    /\ UNCHANGED <<clipboard, channel, sent, received, recorded, funnel>>

HandleFunnelMessage == \E r \in ReadResults : OnFunnelMessage(r)

\* The runtime hands window event `event` to update (subscription::events).
OnEvent(event) ==
    /\ last' = "EventOccurred"
    /\ UpdateEventOccurred(in_flight, event)
    /\ BagCardinality(in_flight') <= MaxInFlight
    /\ UNCHANGED <<clipboard, channel, mailbox, sent, received, recorded,
                   funnel>>

HandleEvent == \E event \in Events : OnEvent(event)

\* A Command::perform future completes and the runtime hands its message to
\* update.
OnCommandResult(m) ==
    /\ BagIn(m, in_flight)
    /\ last' = m.msg
    /\ IF m.msg = "ClipboardUpdated"
       THEN UpdateClipboardUpdated(in_flight (-) Perform(m), m.content)
       ELSE UpdateClipboardError(in_flight (-) Perform(m))
    /\ UNCHANGED <<clipboard, channel, mailbox, sent, received, recorded,
                   funnel>>

HandleCommandResult == \E m \in BagToSet(in_flight) : OnCommandResult(m)

Next ==
    \/ HotkeyThread
    \/ on_clipboard_change
    \/ SubscriptionStep
    \/ HandleFunnelMessage
    \/ HandleEvent
    \/ HandleCommandResult

Spec == Init /\ [][Next]_vars

\* The messages a Command::perform future can carry.
CommandMessages == {ClipboardUpdated(c) : c \in Contents} \cup {ClipboardError}

\* The application under a fair executor: every spawned Command::perform
\* future completes and its message is handed to update.
FairSpec == Spec /\ \A m \in CommandMessages : WF_vars(OnCommandResult(m))

(***************************************************************************)
(* FunnelSpec: the same program with the logs of the funnel kept, for a    *)
(* run of MaxTokens sends.                                                 *)
(***************************************************************************)
LoggedHotkeyThread ==
    /\ Len(sent) < MaxTokens
    /\ Send(0, TRUE)

Logged_on_clipboard_change ==
    /\ Len(sent) < MaxTokens
    /\ Send(1, TRUE)

LoggedSubscriptionStep == Unfold(TRUE)

FunnelNext ==
    \/ LoggedHotkeyThread
    \/ Logged_on_clipboard_change
    \/ LoggedSubscriptionStep
    \/ HandleFunnelMessage
    \/ HandleEvent
    \/ HandleCommandResult

FunnelSpec == Init /\ [][FunnelNext]_vars

\* The funnel under fair scheduling of its consumer: the runtime keeps
\* polling the subscription's stream, and recv returns whenever the channel
\* holds a value.
FairFunnelSpec == FunnelSpec /\ WF_vars(LoggedSubscriptionStep)

(***************************************************************************)
(* HistSpec: the history store under a run of ClipboardUpdated messages,   *)
(* the only messages that change the history.  Only equality of contents   *)
(* matters to add_to_history, so the k-th distinct content of a run is     *)
(* named k - 1.                                                            *)
(***************************************************************************)
\* The manager before any recording: constructed with a clipboard, its first
\* read failed and the error was handled.
HistInit ==
    /\ history = <<>>
    /\ current_selection = None
    /\ visible = FALSE
    /\ clipboard = TRUE
    /\ channel = <<>>
    /\ mailbox = <<>>
    /\ in_flight = EmptyBag
    /\ sent = <<>>
    /\ received = <<>>
    /\ last = "ClipboardError"
    /\ effects = NoEffects
    /\ recorded = <<>>
    /\ funnel = "open"

\* update(Message::ClipboardUpdated(content)), logged.
Record(content) ==
    /\ last' = "ClipboardUpdated"
    /\ UpdateClipboardUpdated(in_flight, content)
    /\ recorded' = Append(recorded, content)
    /\ UNCHANGED <<clipboard, channel, mailbox, sent, received, funnel>>

\* A content never recorded before.
RecordFresh ==
    /\ Cardinality(Range(recorded)) < MaxFresh
    /\ Record(Cardinality(Range(recorded)))

\* A content recorded before, still in the history or evicted from it.
RecordRepeat ==
    /\ Len(recorded) - Cardinality(Range(recorded)) < MaxRepeats
    /\ \E content \in Range(recorded) : Record(content)

HistNext ==
    \/ RecordFresh
    \/ RecordRepeat

HistSpec == HistInit /\ [][HistNext]_vars

(***************************************************************************)
(* CloseSpec: the application when the channel can lose its senders.  The  *)
(* closure of the subscription has a branch for a recv that fails          *)
(* (main.rs:209-211); recv fails once every Sender handle is dropped and   *)
(* the channel is empty.                                                   *)
(***************************************************************************)
\* Every Sender handle is dropped: the producer threads have ended and the
\* Arc that main holds is released.  Tokens already sent stay receivable.
Disconnect ==
    /\ funnel = "open"
    /\ funnel' = "closed"
    /\ UNCHANGED <<history, current_selection, visible, clipboard, channel,
                   mailbox, in_flight, sent, received, last, effects, recorded>>

\* One step of subscription::unfold on a closed, empty channel: recv returns
\* Err, the closure yields (None, receiver), and map's opt.unwrap() panics.
UnfoldDisconnected ==
    /\ funnel = "closed"
    /\ channel = <<>>
    /\ funnel' = "panicked"
    /\ UNCHANGED <<history, current_selection, visible, clipboard, channel,
                   mailbox, in_flight, sent, received, last, effects, recorded>>

CloseNext ==
    \/ HotkeyThread
    \/ on_clipboard_change
    \/ SubscriptionStep
    \/ HandleFunnelMessage
    \/ HandleEvent
    \/ HandleCommandResult
    \/ Disconnect
    \/ UnfoldDisconnected

CloseSpec == Init /\ [][CloseNext]_vars

(***************************************************************************)
(* Properties                                                              *)
(***************************************************************************)
\* The runtime hands a press of key k to update.
KeyStep(k) == OnEvent(KeyPressed(k))

\* The runtime hands message m of the subscription to update.
FunnelStep(m) ==
    /\ mailbox # <<>>
    /\ Head(mailbox) = m
    /\ HandleFunnelMessage

\* The runtime hands some keyboard event to update.
KeyboardStep ==
    \E event \in Events :
        /\ event.kind \in {"KeyPressed", "KeyReleased"}
        /\ OnEvent(event)

\* A step of HistSpec that records content c.
Records(c) == recorded' = Append(recorded, c)

\* h without the entries equal to c.
Without(h, c) == SelectSeq(h, LAMBDA x : x # c)

NoDuplicates(h) == \A i, j \in 1 .. Len(h) : h[i] = h[j] => i = j

\* The place of the latest recording of c in the log, 0 when never recorded.
LastRecorded(c) ==
    LET at == {i \in 1 .. Len(recorded) : recorded[i] = c}
    IN  IF at = {} THEN 0 ELSE CHOOSE i \in at : \A j \in at : j <= i

\* C1: in every reachable state, current_selection is Some only while visible
\* is true: visible = FALSE implies current_selection = None.
C1_SelectionOnlyWhileVisible == ~visible => current_selection = None

\* C2: from Visible(i), pressing Enter when the history has no entry at index i
\* performs no clipboard write and still hides the picker.
C2_EnterOnMissingEntryHides ==
    [][(/\ visible
        /\ current_selection # None
        /\ \A i \in current_selection : Get(history, i) = None
        /\ KeyStep("Enter"))
       => (effects'.write = <<>> /\ visible' = FALSE)]_vars

\* C3: after every sequence of add_to_history calls from the empty history,
\* the history holds at most 10 entries and no two of them are equal.
C3_BoundedNoDuplicates ==
    /\ Len(history) <= 10
    /\ NoDuplicates(history)

C3_Witness ==
    /\ Len(history) = 10
    /\ Cardinality(Range(recorded)) > 10
    /\ Len(recorded) > Cardinality(Range(recorded))

\* C4: the funnel delivers tokens in send order across both producers: the
\* messages the subscription has produced are those of the first tokens sent,
\* in send order, one message per token; the tokens still in the channel are
\* the rest, in send order; update is handed the messages in that order.
C4_FunnelInSendOrder ==
    /\ Len(received) + Len(channel) = Len(sent)
    /\ \A i \in 1 .. Len(received) :
          received[i] = IF sent[i] = 0 THEN "ShowWindow" ELSE "CheckClipboard"
    /\ \A i \in 1 .. Len(channel) : channel[i] = sent[Len(received) + i]
    /\ Len(mailbox) <= Len(received)
    /\ \A i \in 1 .. Len(mailbox) :
          mailbox[i] = received[Len(received) - Len(mailbox) + i]

C4_Witness ==
    /\ Len(channel) >= 2
    /\ channel[1] # channel[2]
    /\ Len(received) >= 1

\* C5: while hidden, a keyboard event leaves visible, current_selection and
\* history unchanged and writes nothing to the clipboard; the only step that
\* makes a hidden picker visible is the handling of ShowWindow, and it selects
\* index 0.
C5_HiddenIgnoresKeys ==
    [][/\ (~visible /\ KeyboardStep)
          => (/\ UNCHANGED <<visible, current_selection, history>>
              /\ effects'.write = <<>>)
       /\ (~visible /\ visible')
          => (last' = "ShowWindow" /\ current_selection' = Some(0))]_vars

C5_Witness ==
    /\ ~visible
    /\ last = "EventOccurred"
    /\ effects = NoEffects
    /\ current_selection = Some(0)
    /\ history # <<>>

\* C6: recording a value already in the history moves it to the front, keeps
\* the length and keeps the order of the other entries.
C6_PromoteOnRepeat ==
    [][\A c \in Range(history) :
          Records(c) => (/\ history' = <<c>> \o Without(history, c)
                         /\ Len(history') = Len(history))]_vars

C6_Witness ==
    /\ recorded = <<0, 1, 0>>
    /\ history = <<0, 1>>

\* C7: recording a value that is not in a history of 10 entries evicts exactly
\* the back entry, puts the value at the front, keeps the other nine in order
\* and keeps the length 10.
C7_EvictOldest ==
    [][\A c \in 0 .. MaxFresh :
          (Len(history) = 10 /\ c \notin Range(history) /\ Records(c))
          => (/\ history' = <<c>> \o SubSeq(history, 1, 9)
              /\ Len(history') = 10)]_vars

C7_Witness ==
    /\ Len(history) = 10
    /\ Len(recorded) = 11
    /\ Cardinality(Range(recorded)) = 11
    /\ history[1] = recorded[11]
    /\ recorded[1] \notin Range(history)

\* C8: after any sequence of recordings, the history lists recorded values by
\* their latest recording, most recent first (position 0 is the value recorded
\* last), and there is no entry at a position i >= len.
C8_MostRecentFirst ==
    /\ \A i \in 1 .. Len(history) : LastRecorded(history[i]) > 0
    /\ \A i, j \in 1 .. Len(history) :
          i < j => LastRecorded(history[i]) > LastRecorded(history[j])
    /\ recorded # <<>> => Get(history, 0) = Some(recorded[Len(recorded)])
    /\ \A c \in Range(recorded) :
          c \notin Range(history)
          => \A i \in 1 .. Len(history) : LastRecorded(c) < LastRecorded(history[i])
    /\ \A i \in Len(history) .. (Len(history) + 2) : Get(history, i) = None

C8_Witness ==
    /\ Len(history) = 10
    /\ Cardinality(Range(recorded)) > 10
    /\ Get(history, 0) = Some(0)
    /\ Get(history, 1) # Some(1)

\* The index the digit of key k selects: 1 -> 0, 2 -> 1, ..., 9 -> 8, 0 -> 9.
DigitOf(k) ==
    CASE k = "Key0" -> 0 [] k = "Key1" -> 1 [] k = "Key2" -> 2 [] k = "Key3" -> 3
      [] k = "Key4" -> 4 [] k = "Key5" -> 5 [] k = "Key6" -> 6 [] k = "Key7" -> 7
      [] k = "Key8" -> 8 [] k = "Key9" -> 9

\* The digit keys map one-to-one onto the indices 0..9, each to the index of
\* its digit.
DigitMappingIsBijection ==
    /\ \A k \in DigitKeys : key_code_to_number(k) = Some((DigitOf(k) + 9) % 10)
    /\ \A k, l \in DigitKeys : key_code_to_number(k) = key_code_to_number(l) => k = l
    /\ UNION {key_code_to_number(k) : k \in DigitKeys} = 0 .. 9

\* C9: the digit keys map one-to-one onto the indices 0..9 (1 -> 0, ...,
\* 9 -> 8, 0 -> 9), and while visible a digit press sets current_selection to
\* the mapped index whatever the length of the history, leaving visible and
\* history unchanged.
C9_DigitSelects ==
    [][/\ DigitMappingIsBijection
       /\ \A k \in DigitKeys :
             (visible /\ KeyStep(k))
             => (/\ current_selection' = Some((DigitOf(k) + 9) % 10)
                 /\ UNCHANGED <<visible, history>>)]_vars

C9_Witness ==
    /\ visible
    /\ last = "EventOccurred"
    /\ current_selection = Some(9)
    /\ Get(history, 9) = None

\* C10: in every reachable state with visible = TRUE, current_selection is
\* Some; it is set to 0 in the step in which visible becomes true.
C10_VisibleHasSelection ==
    [][/\ visible => current_selection # None
       /\ visible' => current_selection' # None
       /\ (~visible /\ visible') => current_selection' = Some(0)]_vars

C10_Witness ==
    /\ visible
    /\ last = "ShowWindow"
    /\ current_selection = Some(0)

\* C11: when the channel closes for good (every sender dropped, recv fails),
\* the event loop ends without reaching a panic.
C11_CloseEndsGracefully == funnel # "panicked"

\* C12: from a visible picker whose selection i has a history entry, Enter
\* makes exactly one clipboard write, of the entry at i as the history stands
\* when Enter is handled, and the picker becomes hidden.
C12_EnterWritesSelectedEntry ==
    [][\A i \in 0 .. (MAX_HISTORY - 1) :
          (/\ KeyStep("Enter")
           /\ visible
           /\ current_selection = Some(i)
           /\ i < Len(history))
          => (/\ Len(effects'.write) = 1
              /\ effects'.write[1].content = history[i + 1]
              /\ visible' = FALSE)]_vars

\* Enter has just written the second of two entries and hidden the picker.
C12_Witness ==
    /\ ~visible
    /\ last = "EventOccurred"
    /\ current_selection = Some(1)
    /\ Len(history) = 2
    /\ Len(effects.write) = 1
    /\ effects.write[1].content = history[2]

\* C13: handling a clipboard-change token never changes visibility, resets
\* the selection to 0 when the picker is visible, leaves it unset when the
\* picker is hidden, and issues a clipboard read in both cases.
C13_CheckClipboardRespectsHidden ==
    [][FunnelStep("CheckClipboard")
          => (/\ visible' = visible
              /\ visible => current_selection' = Some(0)
              /\ ~visible => current_selection' = None
              /\ effects'.read)]_vars

\* The message a notification stands for: the hotkey thread sends 0 and
\* means ShowWindow, the clipboard watcher sends 1 and means CheckClipboard.
KindOf(token) == IF token = 0 THEN "ShowWindow" ELSE "CheckClipboard"

\* Every token sent is either still in the channel or has yielded one
\* message of its own kind, and nothing else was yielded.
ConsumedOnce ==
    /\ Len(received) + Len(channel) = Len(sent)
    /\ \A n \in 1 .. Len(received) : received[n] = KindOf(sent[n])
    /\ \A n \in 1 .. Len(channel) : channel[n] = sent[Len(received) + n]

\* C14: every token a producer sends is consumed exactly once: under fair
\* scheduling of the consumer the n-th token sent eventually yields the n-th
\* message, ShowWindow for a hotkey token and CheckClipboard for a
\* clipboard-change token; none is dropped, duplicated or decoded as the
\* other kind, however many tokens are pending.
C14_EveryTokenConsumedOnce ==
    /\ []ConsumedOnce
    /\ \A n \in 1 .. MaxTokens :
          (Len(sent) >= n) ~> (Len(received) >= n /\ received[n] = KindOf(sent[n]))

\* MaxTokens tokens of both kinds were pending together and all of them
\* have been consumed.
C14_Witness ==
    /\ Len(sent) = MaxTokens
    /\ Len(received) = MaxTokens
    /\ {"ShowWindow", "CheckClipboard"} \subseteq Range(received)
    /\ mailbox = received

\* get_text returning Err.
ReadFailed == [ok |-> FALSE, text |-> -1]

\* The step in which update handles the ClipboardError of a command.
ErrorStep == HandleCommandResult /\ last' = "ClipboardError"

\* The loop goes on: a key press can be handled, a waiting message of the
\* subscription can be handled, a waiting token can be received.
LoopGoesOn ==
    /\ ENABLED HandleEvent
    /\ mailbox # <<>> => ENABLED HandleFunnelMessage
    /\ channel # <<>> => ENABLED SubscriptionStep

\* C15: a clipboard read that fails, whether a clipboard-change token or a
\* show token triggered it, leaves the history unchanged and results only in
\* a ClipboardError message; handling that message changes nothing, and the
\* loop goes on handling tokens and key presses.
C15_FailedReadIsHarmless ==
    /\ [][(OnFunnelMessage(ReadFailed) /\ clipboard)
             => (/\ history' = history
                 /\ in_flight' = in_flight (+) Perform(ClipboardError)
                 /\ effects'.write = <<>>)]_vars
    /\ [][ErrorStep
             => (/\ UNCHANGED <<history, current_selection, visible>>
                 /\ in_flight' = in_flight (-) Perform(ClipboardError)
                 /\ effects' = NoEffects)]_vars
    /\ [](last = "ClipboardError" => LoopGoesOn)

\* A read has just failed on a manager with a history: the only message in
\* flight is its ClipboardError.
C15_Witness ==
    /\ clipboard
    /\ last \in {"ShowWindow", "CheckClipboard"}
    /\ history # <<>>
    /\ in_flight = Perform(ClipboardError)

\* C16: when Enter is pressed on a present entry and the clipboard write
\* fails, the picker still hides and the history is unchanged; the failure
\* only produces a ClipboardError message.
C16_FailedWriteStillHides ==
    [][(/\ KeyStep("Enter")
        /\ effects'.write # <<>>
        /\ ~effects'.write[1].ok)
          => (/\ visible' = FALSE
              /\ effects'.window = "hide"
              /\ history' = history
              /\ in_flight' = in_flight (+) Perform(ClipboardError))]_vars

\* Enter has just been handled on a present entry and its write failed.
C16_Witness ==
    /\ last = "EventOccurred"
    /\ Len(effects.write) = 1
    /\ ~effects.write[1].ok
    /\ ~visible
    /\ history # <<>>
    /\ BagIn(ClipboardError, in_flight)

\* What handling a show token does to the picker and the window.
ShowsPicker ==
    /\ visible' = TRUE
    /\ current_selection' = Some(0)
    /\ effects'.window = "show"

\* The result of a successful read, once in flight, is later recorded at the
\* front of the history.
ReadResultRecorded ==
    \A c \in Contents :
        BagIn(ClipboardUpdated(c), in_flight)
            ~> (last = "ClipboardUpdated" /\ Get(history, 0) = Some(c))

C18_ReadCompletionOnlyChangesHistory ==
    [][\A c \in Contents :
          OnCommandResult(ClipboardUpdated(c))
          => (/\ UNCHANGED <<visible, current_selection>>
              /\ effects' = NoEffects
              /\ history' = add_to_history(history, c))]_vars

\* A read has completed after Enter hid the picker with the second entry
\* selected.
C18_Witness ==
    /\ last = "ClipboardUpdated"
    /\ ~visible
    /\ current_selection = Some(1)
    /\ Len(history) = 2

\* The contents recorded so far, in the history or evicted from it, and one
\* never recorded.
KnownAndFresh == Range(recorded) \cup {Cardinality(Range(recorded))}

\* C19: recording is idempotent: recording the content of the front entry
\* leaves the history exactly unchanged, and for a history h and a content c,
\* recording c twice yields the same history as recording c once.
C19_RecordIdempotent ==
    /\ [][\A c \in Range(recorded) :
             (Records(c) /\ Get(history, 0) = Some(c))
             => history' = history]_vars
    /\ [](\A c \in KnownAndFresh :
             add_to_history(add_to_history(history, c), c)
                 = add_to_history(history, c))

\* The content at the front of a full history has just been recorded again.
C19_Witness ==
    /\ Len(recorded) >= 2
    /\ recorded[Len(recorded)] = recorded[Len(recorded) - 1]
    /\ Len(history) = MAX_HISTORY
    /\ history[1] = recorded[Len(recorded)]

\* The last item of what view renders.
Shown == view.items[Len(view.items)]

\* C20: rendering never panics: in every reachable state, whatever the
\* history holds (empty texts included), whatever the selection and the
\* visibility, view evaluates history.get(curr).expect only when an entry
\* exists at curr; a visible picker whose entry at curr is missing or empty
\* shows the out-of-range text instead.
C20_ViewNeverPanics ==
    LET curr == IF current_selection = None
                THEN 0
                ELSE CHOOSE x \in current_selection : TRUE
    IN  /\ ~view.panic
        /\ Shown.text = "entry"
              => (visible /\ curr < Len(history) /\ history[curr + 1] # EmptyText)
        /\ (visible /\ (curr >= Len(history) \/ history[curr + 1] = EmptyText))
              => Shown.text = "Out of range of stored history."

\* A visible picker whose selection is the index just past the last entry:
\* curr > history.len() is false and history.get(curr) is None.
C20_Witness ==
    /\ visible
    /\ history # <<>>
    /\ current_selection = Some(Len(history))
    /\ \E i \in 1 .. Len(history) : history[i] = EmptyText

====
